---- MODULE Spec2Model ----
(***************************************************************************)
(* A model of src/src/main.rs: the two request handlers of the Sui Move    *)
(* GitHub users service.                                                   *)
(*                                                                         *)
(*   get_sui_move_users          (fleet mode: search, fold, sort)          *)
(*   check_sui_developer_handler (single-developer mode:                   *)
(*       get_user_move_repos, repo_has_move_files, get_user_commit_count)  *)
(*                                                                         *)
(* One behaviour is one inbound request.  The upstream platform is the     *)
(* environment: every response (transport failure, status, body) is drawn  *)
(* with \E from small sets.  An action is the code between two await       *)
(* points of the handler.  Fields that are only passed through to the      *)
(* JSON body (avatar_url, html_url, repo_url, username) are left out.      *)
(***************************************************************************)
EXTENDS Integers, Sequences, FiniteSets, TLC

VARIABLES
    mode,                  \* "idle" | "fleet" | "dev": which route was hit
    pc,                    \* position of the handler
    overflow_checks,       \* build profile: "on" = an arithmetic overflow
                           \* panics, "off" = it wraps.  The profile shows
                           \* only at the first overflow of the run, and is
                           \* "unobserved" until then: either build runs the
                           \* same up to there
    http_status,           \* 0 while running, else the status answered
    now_gap,               \* fake clock: ms slept since the last upstream response
    last_req,              \* the last upstream request issued (kind, page, gap)
    \* ---- get_sui_move_users
    limit,                 \* params.limit, a usize
    page,                  \* loop variable of the current pagination
    all_repos,             \* HashSet<String>
    iterated,              \* repositories taken from all_repos.iter() so far
    user_data,             \* HashMap<String, UserResponse>, as a function
    repos_processed,       \* counter kept by the code
    result,                \* the Json body answered
    fetched,               \* history: repo -> contributor list that was folded
    discovery,             \* history: logins in the order they were first seen
    \* ---- get_user_move_repos / repo_has_move_files / get_user_commit_count
    all_user_repos,        \* Vec<Repository> (full names)
    repo_idx,              \* position of the `for` loops of steps 2 and 3
    repos_with_move_files, \* Vec<String>
    detected,              \* history: detector outcome per entry of all_user_repos
    tree_data,             \* repo_has_move_files: the tree body it has parsed
    repositories_with_commits, \* Vec<RepositoryWithCommits>
    total_commits,         \* grand total of step 3, a u32
    cc_total,              \* get_user_commit_count: local total_commits, a u32
    cc_unit,               \* the upstream holds the author's commits in blocks
                           \* of cc_unit commits (a usize), and a page brings
                           \* whole blocks
    cc_commits,            \* history: blocks the upstream holds
    cc_upstream,           \* blocks the upstream has not served yet
    cc_history,            \* history: the pages answered to this call (blocks
                           \* of each page, 0 the empty page, -1 a failure
                           \* status)
    response               \* UserMoveFilesResponse answered

commonVars == <<mode, pc, overflow_checks, http_status, now_gap, last_req, page>>
fleetVars == <<limit, all_repos, iterated, user_data, repos_processed, result,
               fetched, discovery>>
devVars == <<all_user_repos, repo_idx, repos_with_move_files, detected,
             tree_data, repositories_with_commits, total_commits, cc_total,
             cc_unit, cc_commits,
             cc_upstream, cc_history, response>>
vars == <<commonVars, fleetVars, devVars>>

----------------------------------------------------------------------------
(* Bounds of the model. *)

\* params.limit ranges over 0..MaxLimit and the values of BigLimits
MaxLimit == 1
\* distinct repositories in one search page / entries of one account page
MaxPageItems == 2
\* Contributor records the upstream serves during one request
MaxRecords == 2
\* entries the account repository listing serves during one request
MaxUserRepos == 3
\* blocks of commits by the author the upstream holds for one repository
MaxCommits == 2
\* entries of one tree body
MaxTreeEntries == 2

(* Program constants. *)

\* for page in 1..=10
MaxSearchPages == 10
\* all_repos.len() >= params.limit * 3
OversampleFactor == 3
\* all_repos.iter().take(params.limit * 2)
ScanFactor == 2
\* sleep(Duration::from_secs(6)) after a search page, in ms
SearchDelayMs == 6000
\* sleep after an account repository page
RepoListDelayMs == 500
\* sleep after a Move-file check
DetectDelayMs == 300
\* sleep after a repository's commit count
CommitRepoDelayMs == 500
\* sleep after a repository's contributor fetch
ContributorDelayMs == 2000

RepoNames == {"o/A", "o/B", "o/C", "o/D"}
\* full names the account repository listing may answer
UserRepoNames == {"u/X", "u/Y", "u/Z"}
Logins == {"alice", "bob"}
\* statuses for which status().is_success() is false: a 3xx the client
\* does not follow (304), and client errors
FailStatuses == {304, 403, 404, 429}
\* status().is_success(): 200..299
IsSuccess(status) == status \in 200..299
\* error_for_status_ref() is Err: a client or server error, 400..599
IsErrorStatus(status) == status \in 400..599
\* the statuses of a page the account listing goes on to parse (line 195):
\* those for which error_for_status_ref() is Ok
ListParsedStatuses == {200} \cup {s \in FailStatuses : ~IsErrorStatus(s)}

Min(a, b) == IF a < b THEN a ELSE b
Range(s) == {s[i] : i \in 1..Len(s)}

RECURSIVE SeqsUpTo(_, _)
SeqsUpTo(S, n) ==
    IF n = 0 THEN {<<>>}
    ELSE LET shorter == SeqsUpTo(S, n - 1)
         IN  shorter \cup {Append(s, x) : s \in shorter, x \in S}

----------------------------------------------------------------------------
(* u32 arithmetic.  A u32 is kept as two 16-bit limbs, value = hi*2^16+lo, *)
(* so that the full 32-bit range is represented exactly.                   *)

Limb == 2^16
U32(h, l) == [hi |-> h, lo |-> l]
U32Zero == U32(0, 0)
U32MaxValue == U32(Limb - 1, Limb - 1)
\* a + b in release builds: wraps modulo 2^32
U32WrappingAdd(a, b) ==
    LET lo == a.lo + b.lo
        hi == a.hi + b.hi + (lo \div Limb)
    IN  U32(hi % Limb, lo % Limb)
\* a + b does not fit: a build with overflow checks panics here
U32Overflows(a, b) == a.hi + b.hi + ((a.lo + b.lo) \div Limb) >= Limb
\* a.cmp(&b) == Less
U32Less(a, b) == a.hi < b.hi \/ (a.hi = b.hi /\ a.lo < b.lo)

\* the u32 of a small natural number
U32Of(n) == U32(n \div Limb, n % Limb)

(* usize arithmetic (64 bits).  A usize is kept as four 16-bit limbs, the  *)
(* least significant first: value = u[1] + u[2]*2^16 + u[3]*2^32 +         *)
(* u[4]*2^48.                                                              *)

\* the usize of a small natural number
UsizeOf(n) == <<n % Limb, n \div Limb, 0, 0>>
\* the limbs of u * k with their carries, k a small factor; [5] is what
\* does not fit in 64 bits
UsizeMulWide(u, k) ==
    LET p1 == u[1] * k
        p2 == u[2] * k + (p1 \div Limb)
        p3 == u[3] * k + (p2 \div Limb)
        p4 == u[4] * k + (p3 \div Limb)
    IN  <<p1 % Limb, p2 % Limb, p3 % Limb, p4 % Limb, p4 \div Limb>>
\* u * k without overflow checks: wraps modulo 2^64
UsizeWrappingMul(u, k) == SubSeq(UsizeMulWide(u, k), 1, 4)
\* u * k does not fit: a build with overflow checks panics here
UsizeMulOverflows(u, k) == UsizeMulWide(u, k)[5] > 0
\* u is below 2^31
UsizeIsSmall(u) == u[4] = 0 /\ u[3] = 0 /\ u[2] < Limb \div 2
\* the number u, for a small u
UsizeToNat(u) == u[2] * Limb + u[1]
\* n >= u, for a length n (a small natural number)
LenAtLeast(n, u) == UsizeIsSmall(u) /\ n >= UsizeToNat(u)
\* min(n, u), for a length n
LenMin(n, u) == IF LenAtLeast(n, u) THEN UsizeToNat(u) ELSE n
\* `len as u32`: the low 32 bits
UsizeAsU32(u) == U32(u[2], u[1])

\* limits whose multiples leave the usize range: (2^64 + 2) / 3, of which
\* limit * 3 wraps to 2, and 2^63, of which limit * 2 wraps to 0
BigLimits == {<<21846, 21845, 21845, 21845>>, <<0, 0, 0, 32768>>}
\* the values of the query parameter `limit` (any usize parses)
Limits == {UsizeOf(n) : n \in 0..MaxLimit} \cup BigLimits

\* the sizes of a block of commits: 1, and 2^31 (two of them leave the
\* u32 range)
CommitUnits == {UsizeOf(1), <<0, 32768, 0, 0>>}

\* the build profiles a multiplication or addition leaves possible: one
\* that overflows shows the profile, which stays what it was seen to be
Profiles(overflows, checks) ==
    IF overflows
    THEN {c \in {"on", "off"} : checks \in {"unobserved", c}}
    ELSE {checks}

\* contributions values the upstream may send (any u32 parses)
ContribValues == {U32(0, 1), U32MaxValue}
\* struct Contributor
Contributors == [login : Logins, contributions : ContribValues]

----------------------------------------------------------------------------
(* get_sui_move_users: the fold of one contributor list (lines 446-462).   *)

\* HashMap::new()
EmptyMap == [l \in {} |-> 0]

\* mutant of AddContributions: `=` written for `+=`
AddContributionsAssign(total, contributions) == contributions

\* u.total_contributions += contributor.contributions (wrapping build;
\* the panic of a checked build is decided by FoldOverflows)
AddContributions(total, contributions) == U32WrappingAdd(total, contributions)

\* mutant of PushIfAbsent: the contains() test left out
PushAlways(repositories, repo_name) == Append(repositories, repo_name)

\* if !u.repositories.contains(repo_name) { u.repositories.push(repo_name) }
PushIfAbsent(repositories, repo_name) ==
    IF repo_name \in Range(repositories)
    THEN repositories
    ELSE Append(repositories, repo_name)

\* user_data.entry(login).and_modify(..).or_insert(..)
FoldContributor(ud, repo_name, c) ==
    IF c.login \in DOMAIN ud
    THEN [ud EXCEPT ![c.login] =
            [login |-> @.login,
             total_contributions |->
                 AddContributions(@.total_contributions, c.contributions),
             repositories |-> PushIfAbsent(@.repositories, repo_name)]]
    ELSE [l \in DOMAIN ud \cup {c.login} |->
            IF l = c.login
            THEN [login |-> c.login,
                  total_contributions |-> c.contributions,
                  repositories |-> <<repo_name>>]
            ELSE ud[l]]

\* for contributor in contributors { .. }
RECURSIVE FoldList(_, _, _)
FoldList(ud, repo_name, contributors) ==
    IF contributors = <<>> THEN ud
    ELSE FoldList(FoldContributor(ud, repo_name, Head(contributors)),
                  repo_name, Tail(contributors))

\* some += of the loop overflows u32
RECURSIVE FoldOverflows(_, _, _)
FoldOverflows(ud, repo_name, contributors) ==
    IF contributors = <<>> THEN FALSE
    ELSE LET c == Head(contributors)
         IN  \/ /\ c.login \in DOMAIN ud
                /\ U32Overflows(ud[c.login].total_contributions, c.contributions)
             \/ FoldOverflows(FoldContributor(ud, repo_name, c),
                              repo_name, Tail(contributors))

\* history: the logins of a list appended in first-seen order
RECURSIVE Discover(_, _)
Discover(disc, contributors) ==
    IF contributors = <<>> THEN disc
    ELSE LET l == Head(contributors).login
         IN  Discover(IF l \in Range(disc) THEN disc ELSE Append(disc, l),
                      Tail(contributors))

\* Contributor records served so far in this request
RECURSIVE RecordsIn(_, _)
RecordsIn(f, repos) ==
    IF repos = {} THEN 0
    ELSE LET r == CHOOSE x \in repos : TRUE
         IN  Len(f[r]) + RecordsIn(f, repos \ {r})
RecordsServed == RecordsIn(fetched, DOMAIN fetched)

----------------------------------------------------------------------------
(* get_sui_move_users: sort and truncate (lines 471-473).                  *)

\* mutant of InsertUser: the comparator written a.cmp(b), an ascending sort
InsertUserAscending(sorted, x) ==
    LET k == Cardinality({i \in 1..Len(sorted) :
                 ~U32Less(x.total_contributions, sorted[i].total_contributions)})
    IN  SubSeq(sorted, 1, k) \o <<x>> \o SubSeq(sorted, k + 1, Len(sorted))

\* sort_by(|a, b| b.total_contributions.cmp(&a.total_contributions)):
\* a stable sort, so x goes after every element that does not sort after it
InsertUser(sorted, x) ==
    LET k == Cardinality({i \in 1..Len(sorted) :
                 ~U32Less(sorted[i].total_contributions, x.total_contributions)})
    IN  SubSeq(sorted, 1, k) \o <<x>> \o SubSeq(sorted, k + 1, Len(sorted))

RECURSIVE SortFrom(_, _)
SortFrom(sorted, rest) ==
    IF rest = <<>> THEN sorted
    ELSE SortFrom(InsertUser(sorted, Head(rest)), Tail(rest))

SortUsers(users) == SortFrom(<<>>, users)

\* into_iter().take(n).collect(), n a usize
Take(s, n) == SubSeq(s, 1, LenMin(Len(s), n))

\* the orders in which a HashMap / HashSet may yield its members
RECURSIVE Orders(_)
Orders(S) ==
    IF S = {} THEN {<<>>}
    ELSE UNION {{<<x>> \o o : o \in Orders(S \ {x})} : x \in S}

----------------------------------------------------------------------------
(* The bodies the tree call of repo_has_move_files may parse (line 291).   *)

\* a path: the sequence of its characters
MoveExt == <<".", "m", "o", "v", "e">>
Paths == {<<"a", ".", "m", "o", "v", "e">>,
          <<"m", "o", "v", "e">>,
          <<".", "m", "o", "v", "e", "s">>,
          <<"a", ".", "r", "s">>}
\* an entry of the tree array: item["path"] is a string or is not
TreeEntries == [is_str : {TRUE}, path : Paths]
                   \cup {[is_str |-> FALSE, path |-> <<>>]}
\* a body that parses as JSON: tree_data["tree"] is an array or is not
TreeBodies == [has_tree : {TRUE}, tree : SeqsUpTo(TreeEntries, MaxTreeEntries),
               present : {TRUE}]
                  \cup {[has_tree |-> FALSE, tree |-> <<>>, present |-> TRUE]}
\* no tree body is held (outside the tree call of repo_has_move_files)
NoTree == [has_tree |-> FALSE, tree |-> <<>>, present |-> FALSE]

----------------------------------------------------------------------------
(* The state after construction: the server is listening.                  *)

NoReq == [kind |-> "none", page |-> 0, gap |-> 0, prev |-> 0,
          outcome |-> "none", status |-> 0]
NoResponse == [has_move_files |-> FALSE, total_repositories |-> 0,
               total_commits |-> U32Zero, repositories |-> <<>>, present |-> FALSE]

Init ==
    /\ mode = "idle"
    /\ pc = "idle"
    /\ overflow_checks = "unobserved"
    /\ http_status = 0
    /\ now_gap = 0
    /\ last_req = NoReq
    /\ page = 0
    /\ limit = UsizeOf(0)
    /\ all_repos = {}
    /\ iterated = <<>>
    /\ user_data = EmptyMap
    /\ repos_processed = 0
    /\ result = <<>>
    /\ fetched = EmptyMap
    /\ discovery = <<>>
    /\ all_user_repos = <<>>
    /\ repo_idx = 0
    /\ repos_with_move_files = <<>>
    /\ detected = <<>>
    /\ tree_data = NoTree
    /\ repositories_with_commits = <<>>
    /\ total_commits = U32Zero
    /\ cc_total = U32Zero
    /\ cc_unit = UsizeOf(1)
    /\ cc_commits = 0
    /\ cc_upstream = 0
    /\ cc_history = <<>>
    /\ response = NoResponse

\* a request goes out and is answered: what it asks for, the time slept
\* since the last response, the page asked for before it in the same
\* pagination, and how the upstream answers ("transport": send() fails,
\* "status": a failure status, "malformed": the body does not parse, "ok")
Issue(kind, p, outcome, status) ==
    last_req' = [kind |-> kind, page |-> p, gap |-> now_gap,
                 prev |-> IF last_req.kind = kind THEN last_req.page ELSE 0,
                 outcome |-> outcome, status |-> status]

\* the handler returns: the status is answered and nothing runs any more
Answer(status) ==
    /\ http_status' = status
    /\ pc' = "done"

\* get_sui_move_users returns Err(status): its locals are dropped
FailFleet(status) ==
    /\ Answer(status)
    /\ page' = 0
    /\ limit' = UsizeOf(0)
    /\ all_repos' = {}
    /\ iterated' = <<>>
    /\ user_data' = EmptyMap
    /\ repos_processed' = 0
    /\ fetched' = EmptyMap
    /\ discovery' = <<>>
    /\ UNCHANGED <<mode, overflow_checks, now_gap, result>>
    /\ UNCHANGED devVars

\* get_user_move_repos returns Err, answered BAD_GATEWAY by the handler
\* (line 157): its locals are dropped
FailDev ==
    /\ Answer(502)
    /\ page' = 0
    /\ all_user_repos' = <<>>
    /\ repo_idx' = 0
    /\ repos_with_move_files' = <<>>
    /\ detected' = <<>>
    /\ tree_data' = NoTree
    /\ repositories_with_commits' = <<>>
    /\ total_commits' = U32Zero
    /\ cc_total' = U32Zero
    /\ cc_unit' = UsizeOf(1)
    /\ cc_commits' = 0
    /\ cc_upstream' = 0
    /\ cc_history' = <<>>
    /\ UNCHANGED <<mode, overflow_checks, now_gap, response>>
    /\ UNCHANGED fleetVars

----------------------------------------------------------------------------
(* get_sui_move_users, discovery (lines 353-427).  GITHUB_TOKEN is checked *)
(* by main() before the server starts, so the handler's own lookup         *)
(* succeeds; search_queries holds one query, so the outer loop runs once.  *)

\* GET /sui-move-users?limit=N
StartFleet ==
    /\ mode = "idle"
    /\ mode' = "fleet"
    /\ limit' \in Limits
    /\ pc' = "search"
    /\ page' = 1
    /\ UNCHANGED <<overflow_checks, http_status, now_gap, last_req>>
    /\ UNCHANGED <<all_repos, iterated, user_data, repos_processed, result,
                   fetched, discovery>>
    /\ UNCHANGED devVars

\* the request of the current search page goes out
IssueSearch(outcome, status) == Issue("search", page, outcome, status)

\* .send().await fails: map_err to BAD_GATEWAY (line 387)
SearchTransportError ==
    /\ mode = "fleet" /\ pc = "search"
    /\ IssueSearch("transport", 0)
    /\ FailFleet(502)

\* status == 403 gives TOO_MANY_REQUESTS, any other failure BAD_GATEWAY
SearchErrorStatus(status) == IF status = 403 THEN 429 ELSE 502

\* !response.status().is_success() (lines 389-402)
SearchBadStatus ==
    /\ mode = "fleet" /\ pc = "search"
    /\ \E status \in FailStatuses :
          /\ IssueSearch("status", status)
          /\ FailFleet(SearchErrorStatus(status))

\* response.json() fails: INTERNAL_SERVER_ERROR (line 407)
SearchMalformed ==
    /\ mode = "fleet" /\ pc = "search"
    /\ IssueSearch("malformed", 200)
    /\ FailFleet(500)

\* mutant of CapReached: `>` written for `>=`
CapReachedStrict(repos, n) ==
    /\ LenAtLeast(Cardinality(repos), UsizeWrappingMul(n, OversampleFactor))
    /\ UsizeOf(Cardinality(repos)) # UsizeWrappingMul(n, OversampleFactor)

\* all_repos.len() >= params.limit * 3, the product as a build without
\* overflow checks computes it (one with them has panicked if it does not
\* fit: see AfterSearchPage, FoldEntry)
CapReached(repos, n) ==
    LenAtLeast(Cardinality(repos), UsizeWrappingMul(n, OversampleFactor))

\* the multiplication limit * k panics in the build of profile c
MulPanics(n, k, c) == c = "on" /\ UsizeMulOverflows(n, k)

\* the search loop is left: limit * 3 is computed again (line 424), then
\* limit * 2 for take() (line 432); the handler is then at the fold, or
\* has panicked.  The set of [pc, checks] it may come to.
FoldEntry(n, checks) ==
    UNION {IF MulPanics(n, OversampleFactor, c1)
           THEN {[pc |-> "panicked", checks |-> c1]}
           ELSE {[pc |-> IF MulPanics(n, ScanFactor, c2)
                         THEN "panicked" ELSE "fold",
                  checks |-> c2] :
                    c2 \in Profiles(UsizeMulOverflows(n, ScanFactor), c1)} :
             c1 \in Profiles(UsizeMulOverflows(n, OversampleFactor), checks)}

\* where the loop goes after a page whose repositories are `items`: an
\* empty page ends it; else limit * 3 is computed (line 417), and the loop
\* ends if the cap is reached, else sleeps.  The set of [pc, checks].
AfterSearchPage(items, repos, n, checks) ==
    IF items = {} THEN FoldEntry(n, checks)
    ELSE UNION {IF MulPanics(n, OversampleFactor, c)
                THEN {[pc |-> "panicked", checks |-> c]}
                ELSE IF CapReached(repos \cup items, n)
                     THEN FoldEntry(n, c)
                     ELSE {[pc |-> "search_sleep", checks |-> c]} :
                  c \in Profiles(UsizeMulOverflows(n, OversampleFactor),
                                 checks)}

\* a search page parses (lines 404-419); `items` are the repositories of
\* its items, which only ever enter a set
SearchPageOk ==
    /\ mode = "fleet" /\ pc = "search"
    /\ IssueSearch("ok", 200)
    /\ \E items \in {s \in SUBSET RepoNames : Cardinality(s) <= MaxPageItems} :
       \E to \in AfterSearchPage(items, all_repos, limit, overflow_checks) :
          /\ all_repos' = all_repos \cup items
          /\ pc' = to.pc
          /\ overflow_checks' = to.checks
          \* `page` ends with the loop
          /\ page' = IF to.pc = "search_sleep" THEN page ELSE 0
    /\ now_gap' = 0
    /\ UNCHANGED <<mode, http_status>>
    /\ UNCHANGED <<limit, iterated, user_data, repos_processed, result,
                   fetched, discovery>>
    /\ UNCHANGED devVars

\* mutant of SearchPagesLeft: a `loop` with no page cap
SearchPagesLeftNoCap(p) == TRUE

\* the range 1..=10 of `for page in 1..=10` has a page after p
SearchPagesLeft(p) == p < MaxSearchPages

\* sleep(6 s), then the next turn of `for page in 1..=10`
SearchSleep ==
    /\ mode = "fleet" /\ pc = "search_sleep"
    /\ now_gap' = now_gap + SearchDelayMs
    /\ IF SearchPagesLeft(page)
       THEN page' = page + 1 /\ pc' = "search" /\ UNCHANGED overflow_checks
       ELSE /\ page' = 0
            /\ \E to \in FoldEntry(limit, overflow_checks) :
                  pc' = to.pc /\ overflow_checks' = to.checks
    /\ UNCHANGED <<mode, http_status, last_req>>
    /\ UNCHANGED fleetVars
    /\ UNCHANGED devVars

----------------------------------------------------------------------------
(* get_sui_move_users, aggregation (lines 429-474).                        *)

\* how many repositories all_repos.iter().take(limit * 2) yields, the
\* product as a build without overflow checks computes it
ScanCount(repos, n) == LenMin(Cardinality(repos), UsizeWrappingMul(n, ScanFactor))

FoldGuard ==
    /\ mode = "fleet" /\ pc = "fold"
    /\ Len(iterated) < ScanCount(all_repos, limit)

\* the contributors request of one repository goes out and is answered
IssueContributors(outcome, status) ==
    /\ Issue("contributors", 1, outcome, status)
    /\ now_gap' = 0

\* the contributors call fails, answers a failure status or does not
\* parse: the three `if let` fall through and nothing is folded
FoldSkip ==
    /\ FoldGuard
    /\ \E repo_name \in all_repos \ Range(iterated) :
          iterated' = Append(iterated, repo_name)
    /\ \/ IssueContributors("transport", 0)
       \/ \E status \in FailStatuses : IssueContributors("status", status)
       \/ IssueContributors("malformed", 200)
    /\ pc' = "fold_sleep"
    /\ UNCHANGED <<mode, overflow_checks, http_status, page>>
    /\ UNCHANGED <<limit, all_repos, user_data, repos_processed, result,
                   fetched, discovery>>
    /\ UNCHANGED devVars

\* the contributors call answers a list, which is folded into user_data
FoldRepo ==
    /\ FoldGuard
    /\ \E repo_name \in all_repos \ Range(iterated) :
       \E contributors \in SeqsUpTo(Contributors, MaxRecords - RecordsServed) :
          /\ iterated' = Append(iterated, repo_name)
          /\ fetched' = [r \in DOMAIN fetched \cup {repo_name} |->
                            IF r = repo_name THEN contributors ELSE fetched[r]]
          /\ \E c \in Profiles(FoldOverflows(user_data, repo_name, contributors),
                              overflow_checks) :
                /\ overflow_checks' = c
                /\ IF c = "on" /\ FoldOverflows(user_data, repo_name,
                                                 contributors)
                   THEN \* attempt to add with overflow: the handler's task
                        \* panics and nothing is answered
                        /\ pc' = "panicked"
                        /\ UNCHANGED <<user_data, repos_processed, discovery>>
                   ELSE /\ user_data' = FoldList(user_data, repo_name,
                                                 contributors)
                        /\ discovery' = Discover(discovery, contributors)
                        /\ repos_processed' = repos_processed + 1
                        /\ pc' = "fold_sleep"
    /\ IssueContributors("ok", 200)
    /\ UNCHANGED <<mode, http_status, page>>
    /\ UNCHANGED <<limit, all_repos, result>>
    /\ UNCHANGED devVars

\* sleep(2000 ms) after each repository
FoldSleep ==
    /\ mode = "fleet" /\ pc = "fold_sleep"
    /\ now_gap' = now_gap + ContributorDelayMs
    /\ pc' = "fold"
    /\ UNCHANGED <<mode, overflow_checks, http_status, last_req, page>>
    /\ UNCHANGED fleetVars
    /\ UNCHANGED devVars

\* the report built from the values of the map, yielded in `order`
Report(ud, order, n) ==
    Take(SortUsers([i \in 1..Len(order) |-> ud[order[i]]]), n)

\* into_values().collect(), sort_by, take(limit), Ok(Json(result))
FleetFinish ==
    /\ mode = "fleet" /\ pc = "fold"
    /\ Len(iterated) = ScanCount(all_repos, limit)
    /\ \E order \in Orders(DOMAIN user_data) :
          result' = Report(user_data, order, limit)
    /\ Answer(200)
    /\ UNCHANGED <<mode, overflow_checks, now_gap, last_req, page>>
    /\ UNCHANGED <<limit, all_repos, iterated, user_data, repos_processed,
                   fetched, discovery>>
    /\ UNCHANGED devVars

NextFleet ==
    \/ StartFleet
    \/ SearchTransportError
    \/ SearchBadStatus
    \/ SearchMalformed
    \/ SearchPageOk
    \/ SearchSleep
    \/ FoldSkip
    \/ FoldRepo
    \/ FoldSleep
    \/ FleetFinish

----------------------------------------------------------------------------
(* check_sui_developer_handler / get_user_move_repos, step 1: the account  *)
(* repository listing (lines 148-205).  Every Err of get_user_move_repos   *)
(* is answered BAD_GATEWAY by the handler (line 157).                      *)

\* GET /check-sui-developer?username=U
StartDev ==
    /\ mode = "idle"
    /\ mode' = "dev"
    /\ pc' = "list"
    /\ page' = 1
    /\ UNCHANGED <<overflow_checks, http_status, now_gap, last_req>>
    /\ UNCHANGED fleetVars
    /\ UNCHANGED devVars

\* .send().await? fails (line 184)
ListTransportError ==
    /\ mode = "dev" /\ pc = "list"
    /\ Issue("repos", page, "transport", 0)
    /\ FailDev

\* error_for_status_ref() is Err: return Err("GitHub API error ..") (186-193)
ListBadStatus ==
    /\ mode = "dev" /\ pc = "list"
    /\ \E status \in {s \in FailStatuses : IsErrorStatus(s)} :
          Issue("repos", page, "status", status)
    /\ FailDev

\* resp.json().await? fails (line 195)
ListMalformed ==
    /\ mode = "dev" /\ pc = "list"
    /\ \E status \in ListParsedStatuses :
          Issue("repos", page, "malformed", status)
    /\ FailDev

\* a page parses, whatever status error_for_status_ref() let through:
\* empty ends the loop, else extend, page += 1 (195-202)
ListPageOk ==
    /\ mode = "dev" /\ pc = "list"
    /\ \E status \in ListParsedStatuses : Issue("repos", page, "ok", status)
    /\ \E repos \in SeqsUpTo(UserRepoNames,
                     Min(MaxPageItems, MaxUserRepos - Len(all_user_repos))) :
          IF repos = <<>>
          THEN /\ pc' = "detect"
               /\ repo_idx' = 1
               /\ page' = 0
               /\ UNCHANGED all_user_repos
          ELSE /\ all_user_repos' = all_user_repos \o repos
               /\ page' = page + 1
               /\ pc' = "list_sleep"
               /\ UNCHANGED repo_idx
    /\ now_gap' = 0
    /\ UNCHANGED <<mode, overflow_checks, http_status>>
    /\ UNCHANGED fleetVars
    /\ UNCHANGED <<repos_with_move_files, detected, tree_data,
                   repositories_with_commits,
                   total_commits, cc_total, cc_unit, cc_commits, cc_upstream,
                   cc_history,
                   response>>

\* sleep(500 ms), then the next turn of the loop
ListSleep ==
    /\ mode = "dev" /\ pc = "list_sleep"
    /\ now_gap' = now_gap + RepoListDelayMs
    /\ pc' = "list"
    /\ UNCHANGED <<mode, overflow_checks, http_status, last_req, page>>
    /\ UNCHANGED fleetVars
    /\ UNCHANGED devVars

----------------------------------------------------------------------------
(* Step 2: repo_has_move_files for each entry (lines 207-215, 247-305).    *)

\* mutant of EndsWith: contains() written for ends_with()
PathContains(path, suffix) ==
    \E k \in 1..Len(path) :
        /\ k + Len(suffix) - 1 <= Len(path)
        /\ SubSeq(path, k, k + Len(suffix) - 1) = suffix

\* path.ends_with(suffix)
EndsWith(path, suffix) ==
    /\ Len(path) >= Len(suffix)
    /\ SubSeq(path, Len(path) - Len(suffix) + 1, Len(path)) = suffix

\* lines 294-304: some entry of the tree array has a string path that
\* ends with ".move"
HasMovePath(body) ==
    /\ body.has_tree
    /\ \E i \in 1..Len(body.tree) :
          /\ body.tree[i].is_str
          /\ EndsWith(body.tree[i].path, MoveExt)

DetectGuard(at) ==
    /\ mode = "dev" /\ pc = at
    /\ repo_idx <= Len(all_user_repos)

\* repo_has_move_files returns Err, `?` returns it from get_user_move_repos
DetectAbort(kind, outcome, status) ==
    /\ Issue(kind, 1, outcome, status)
    /\ FailDev

\* repo_has_move_files returns Ok(has_move): lines 211-213
DetectReturn(kind, outcome, status, body, has_move) ==
    /\ Issue(kind, 1, outcome, status)
    /\ now_gap' = 0
    /\ tree_data' = body
    /\ detected' = Append(detected, has_move)
    /\ repos_with_move_files' =
           IF has_move
           THEN Append(repos_with_move_files, all_user_repos[repo_idx])
           ELSE repos_with_move_files
    /\ pc' = "detect_sleep"
    /\ UNCHANGED <<mode, overflow_checks, http_status, page>>
    /\ UNCHANGED fleetVars
    /\ UNCHANGED <<all_user_repos, repo_idx, repositories_with_commits,
                   total_commits, cc_total, cc_unit, cc_commits, cc_upstream,
                   cc_history,
                   response>>

\* mutant of DetectOnStatus: a failure status returned as an error
DetectOnStatusErr(kind, status) == DetectAbort(kind, "status", status)

\* if !status().is_success() { return Ok(false) } (lines 264-266, 287-289)
DetectOnStatus(kind, status) ==
    DetectReturn(kind, "status", status, NoTree, FALSE)

\* the repository-metadata call fails in transport (line 262)
MetaTransportError ==
    DetectGuard("detect") /\ DetectAbort("repo", "transport", 0)

\* the repository-metadata call answers a failure status (lines 264-266)
MetaBadStatus ==
    /\ DetectGuard("detect")
    /\ \E status \in FailStatuses : DetectOnStatus("repo", status)

\* the repository-metadata body does not parse (line 268)
MetaMalformed ==
    DetectGuard("detect") /\ DetectAbort("repo", "malformed", 200)

\* the metadata parses; default_branch or "main" names the tree to fetch
MetaOk ==
    /\ DetectGuard("detect")
    /\ Issue("repo", 1, "ok", 200)
    /\ now_gap' = 0
    /\ pc' = "detect_tree"
    /\ UNCHANGED <<mode, overflow_checks, http_status, page>>
    /\ UNCHANGED fleetVars
    /\ UNCHANGED devVars

\* the tree call fails in transport (line 285)
TreeTransportError ==
    DetectGuard("detect_tree") /\ DetectAbort("tree", "transport", 0)

\* the tree call answers a failure status (lines 287-289)
TreeBadStatus ==
    /\ DetectGuard("detect_tree")
    /\ \E status \in FailStatuses : DetectOnStatus("tree", status)

\* the tree body does not parse (line 291)
TreeMalformed ==
    DetectGuard("detect_tree") /\ DetectAbort("tree", "malformed", 200)

\* the tree parses and is searched (lines 291-304)
TreeOk ==
    /\ DetectGuard("detect_tree")
    /\ \E body \in TreeBodies :
          DetectReturn("tree", "ok", 200, body, HasMovePath(body))

\* sleep(300 ms), then the next repository
DetectSleep ==
    /\ mode = "dev" /\ pc = "detect_sleep"
    /\ now_gap' = now_gap + DetectDelayMs
    /\ repo_idx' = repo_idx + 1
    /\ pc' = "detect"
    \* the locals of repo_has_move_files are gone
    /\ tree_data' = NoTree
    /\ UNCHANGED <<mode, overflow_checks, http_status, last_req, page>>
    /\ UNCHANGED fleetVars
    /\ UNCHANGED <<all_user_repos, repos_with_move_files, detected,
                   repositories_with_commits, total_commits, cc_total,
                   cc_unit, cc_commits, cc_upstream, cc_history, response>>

\* the loop of step 2 is exhausted: step 3 starts (lines 217-221)
DetectLoopEnd ==
    /\ mode = "dev" /\ pc = "detect"
    /\ repo_idx > Len(all_user_repos)
    /\ repo_idx' = 1
    /\ pc' = "commits"
    /\ UNCHANGED <<mode, overflow_checks, http_status, now_gap, last_req, page>>
    /\ UNCHANGED fleetVars
    /\ UNCHANGED <<all_user_repos, repos_with_move_files, detected, tree_data,
                   repositories_with_commits, total_commits, cc_total,
                   cc_unit, cc_commits, cc_upstream, cc_history, response>>

----------------------------------------------------------------------------
(* Step 3: get_user_commit_count for each repository with Move files       *)
(* (lines 217-233, 307-349).  Both totals are u32: the commits come in     *)
(* blocks of 1 or of 2^31, so that the sums stay small or leave the range. *)

\* get_user_commit_count is entered: total_commits = 0, page = 1; the
\* upstream holds some number of blocks of commits by the author
CommitCountStart ==
    /\ mode = "dev" /\ pc = "commits"
    /\ repo_idx <= Len(repos_with_move_files)
    /\ cc_total' = U32Zero
    /\ page' = 1
    /\ \E n \in 0..MaxCommits : \E unit \in CommitUnits :
          /\ n = 0 => unit = UsizeOf(1)
          /\ cc_unit' = unit
          /\ cc_commits' = n
          /\ cc_upstream' = n
    /\ cc_history' = <<>>
    /\ pc' = "commit_page"
    /\ UNCHANGED <<mode, overflow_checks, http_status, now_gap, last_req>>
    /\ UNCHANGED fleetVars
    /\ UNCHANGED <<all_user_repos, repo_idx, repos_with_move_files, detected,
                   tree_data, repositories_with_commits, total_commits,
                   response>>

\* total_commits += commits.len() as u32 (line 342), in a build without
\* overflow checks; len is a usize
AddPage(total, len) == U32WrappingAdd(total, UsizeAsU32(len))

\* the addition of line 342 does not fit in u32
AddPageOverflows(total, len) == U32Overflows(total, UsizeAsU32(len))

\* total_commits += commit_count (line 230), in a build without overflow
\* checks
AddCommitCount(total, count) == U32WrappingAdd(total, count)

\* get_user_commit_count returns Ok(count): the entry is pushed and the
\* count added to the grand total (lines 222-230); an addition that does
\* not fit panics in a build with overflow checks
CommitCountReturn(count) ==
    /\ repositories_with_commits' =
           Append(repositories_with_commits,
                  [repo_name |-> repos_with_move_files[repo_idx],
                   commit_count |-> count])
    /\ \E c \in Profiles(U32Overflows(total_commits, count), overflow_checks) :
          /\ overflow_checks' = c
          /\ IF c = "on" /\ U32Overflows(total_commits, count)
             THEN pc' = "panicked" /\ UNCHANGED total_commits
             ELSE /\ total_commits' = AddCommitCount(total_commits, count)
                  /\ pc' = "commit_sleep"
    /\ page' = 0

\* .send().await? fails (line 328): Err leaves get_user_move_repos by `?`
CommitTransportError ==
    /\ mode = "dev" /\ pc = "commit_page"
    /\ Issue("commits", page, "transport", 0)
    /\ FailDev

\* a failure status: break, and the total so far is returned (330-333, 348)
CommitBadStatus ==
    /\ mode = "dev" /\ pc = "commit_page"
    /\ \E status \in FailStatuses : Issue("commits", page, "status", status)
    /\ CommitCountReturn(cc_total)
    /\ cc_history' = Append(cc_history, -1)
    /\ now_gap' = 0
    /\ UNCHANGED <<mode, http_status>>
    /\ UNCHANGED fleetVars
    /\ UNCHANGED <<all_user_repos, repo_idx, repos_with_move_files, detected,
                   tree_data, cc_total, cc_unit, cc_commits, cc_upstream,
                   response>>

\* the body does not parse (line 335)
CommitMalformed ==
    /\ mode = "dev" /\ pc = "commit_page"
    /\ Issue("commits", page, "malformed", 200)
    /\ FailDev

\* a non-empty page of `blocks` blocks: counted, page += 1, and the loop
\* goes on without a sleep (lines 342-346); an addition that does not fit
\* panics in a build with overflow checks
CommitPageMore ==
    /\ mode = "dev" /\ pc = "commit_page"
    /\ cc_upstream > 0
    /\ Issue("commits", page, "ok", 200)
    /\ \E blocks \in 1..cc_upstream :
       LET len == UsizeWrappingMul(cc_unit, blocks)
       IN  /\ cc_upstream' = cc_upstream - blocks
           /\ cc_history' = Append(cc_history, blocks)
           /\ \E c \in Profiles(AddPageOverflows(cc_total, len),
                               overflow_checks) :
                 /\ overflow_checks' = c
                 /\ IF c = "on" /\ AddPageOverflows(cc_total, len)
                    THEN pc' = "panicked" /\ UNCHANGED <<cc_total, page>>
                    ELSE /\ cc_total' = AddPage(cc_total, len)
                         /\ page' = page + 1
                         /\ UNCHANGED pc
    /\ now_gap' = 0
    /\ UNCHANGED <<mode, http_status>>
    /\ UNCHANGED fleetVars
    /\ UNCHANGED <<all_user_repos, repo_idx, repos_with_move_files, detected,
                   tree_data, repositories_with_commits, total_commits,
                   cc_unit, cc_commits, response>>

\* the empty page: break, and the total is returned (lines 338-340, 348)
CommitPageEmpty ==
    /\ mode = "dev" /\ pc = "commit_page"
    /\ cc_upstream = 0
    /\ Issue("commits", page, "ok", 200)
    /\ CommitCountReturn(cc_total)
    /\ cc_history' = Append(cc_history, 0)
    /\ now_gap' = 0
    /\ UNCHANGED <<mode, http_status>>
    /\ UNCHANGED fleetVars
    /\ UNCHANGED <<all_user_repos, repo_idx, repos_with_move_files, detected,
                   tree_data, cc_total, cc_unit, cc_commits, cc_upstream,
                   response>>

\* sleep(500 ms), then the next repository; the locals of
\* get_user_commit_count are gone
CommitSleep ==
    /\ mode = "dev" /\ pc = "commit_sleep"
    /\ now_gap' = now_gap + CommitRepoDelayMs
    /\ repo_idx' = repo_idx + 1
    /\ pc' = "commits"
    /\ cc_total' = U32Zero
    /\ cc_unit' = UsizeOf(1)
    /\ cc_commits' = 0
    /\ cc_upstream' = 0
    /\ cc_history' = <<>>
    /\ UNCHANGED <<mode, overflow_checks, http_status, last_req, page>>
    /\ UNCHANGED fleetVars
    /\ UNCHANGED <<all_user_repos, repos_with_move_files, detected, tree_data,
                   repositories_with_commits, total_commits, response>>

\* sort_by(|a, b| b.commit_count.cmp(&a.commit_count)), a stable sort
InsertRepo(sorted, x) ==
    LET k == Cardinality({i \in 1..Len(sorted) :
                 ~U32Less(sorted[i].commit_count, x.commit_count)})
    IN  SubSeq(sorted, 1, k) \o <<x>> \o SubSeq(sorted, k + 1, Len(sorted))

RECURSIVE SortReposFrom(_, _)
SortReposFrom(sorted, rest) ==
    IF rest = <<>> THEN sorted
    ELSE SortReposFrom(InsertRepo(sorted, Head(rest)), Tail(rest))

SortRepos(repos) == SortReposFrom(<<>>, repos)

\* mutant of BuildResponse: has_move_files taken from the account listing
BuildResponseFromListing(with_commits, total) ==
    [has_move_files |-> all_user_repos # <<>>,
     total_repositories |-> Len(all_user_repos),
     total_commits |-> total,
     repositories |-> SortRepos(with_commits),
     present |-> TRUE]

\* UserMoveFilesResponse { .. } (lines 236-244)
BuildResponse(with_commits, total) ==
    [has_move_files |-> with_commits # <<>>,
     total_repositories |-> Len(with_commits),
     total_commits |-> total,
     repositories |-> SortRepos(with_commits),
     present |-> TRUE]

\* the loop of step 3 is exhausted: sort, Ok(response), Ok(Json(response))
DevFinish ==
    /\ mode = "dev" /\ pc = "commits"
    /\ repo_idx > Len(repos_with_move_files)
    /\ response' = BuildResponse(repositories_with_commits, total_commits)
    /\ Answer(200)
    /\ UNCHANGED <<mode, overflow_checks, now_gap, last_req, page>>
    /\ UNCHANGED fleetVars
    /\ UNCHANGED <<all_user_repos, repo_idx, repos_with_move_files, detected,
                   tree_data,
                   repositories_with_commits, total_commits, cc_total,
                   cc_unit, cc_commits, cc_upstream, cc_history>>

NextDev ==
    \/ StartDev
    \/ ListTransportError
    \/ ListBadStatus
    \/ ListMalformed
    \/ ListPageOk
    \/ ListSleep
    \/ MetaTransportError
    \/ MetaBadStatus
    \/ MetaMalformed
    \/ MetaOk
    \/ TreeTransportError
    \/ TreeBadStatus
    \/ TreeMalformed
    \/ TreeOk
    \/ DetectSleep
    \/ DetectLoopEnd
    \/ CommitCountStart
    \/ CommitTransportError
    \/ CommitBadStatus
    \/ CommitMalformed
    \/ CommitPageMore
    \/ CommitPageEmpty
    \/ CommitSleep
    \/ DevFinish

Next == NextFleet \/ NextDev

\* one inbound request, on either route
Spec == Init /\ [][Next]_vars
\* one inbound request to /sui-move-users
SpecFleet == Init /\ [][NextFleet]_vars
\* one inbound request to /check-sui-developer
SpecDev == Init /\ [][NextDev]_vars

\* The handler is a task the runtime keeps polling, and the environment
\* answers every request (a response or a transport error): a step that is
\* possible is eventually taken.
FairSpec == Spec /\ WF_vars(Next)
FairSpecFleet == SpecFleet /\ WF_vars(NextFleet)
FairSpecDev == SpecDev /\ WF_vars(NextDev)

----------------------------------------------------------------------------
(* Properties of get_sui_move_users.                                       *)

\* an exact natural number, hi not bounded: the sum the claims speak of
ExactAdd(a, b) ==
    [hi |-> a.hi + b.hi + ((a.lo + b.lo) \div Limb), lo |-> (a.lo + b.lo) % Limb]

\* the sum of the contributions of `login`'s records in one list
RECURSIVE SumInList(_, _)
SumInList(login, contributors) ==
    IF contributors = <<>> THEN U32Zero
    ELSE LET c == Head(contributors)
             rest == SumInList(login, Tail(contributors))
         IN  IF c.login = login THEN ExactAdd(c.contributions, rest) ELSE rest

\* the sum over the lists the upstream returned for the repositories `repos`
RECURSIVE SumOverRepos(_, _)
SumOverRepos(login, repos) ==
    IF repos = <<>> THEN U32Zero
    ELSE ExactAdd(SumInList(login, fetched[Head(repos)]),
                  SumOverRepos(login, Tail(repos)))

\* how often `login` occurs in a list
Sightings(login, contributors) ==
    Cardinality({i \in 1..Len(contributors) : contributors[i].login = login})

FleetAnswered == mode = "fleet" /\ pc = "done" /\ http_status = 200

\* C1 (as stated): for every login of the map, total_contributions equals
\* the sum of the contributions of that login's Contributor records over
\* exactly the repositories of its repositories list.
C1_TotalIsSumOverListedRepos ==
    \A l \in DOMAIN user_data :
        user_data[l].total_contributions
            = SumOverRepos(l, user_data[l].repositories)

\* what the claims compare of an aggregate map: per login the total and the
\* set of repository names
View(ud) ==
    [l \in DOMAIN ud |->
        [total |-> ud[l].total_contributions,
         repos |-> Range(ud[l].repositories)]]

\* the fold of the fetched lists, the repositories taken in `order`
RECURSIVE FoldInOrder(_, _)
FoldInOrder(ud, order) ==
    IF order = <<>> THEN ud
    ELSE FoldInOrder(FoldList(ud, Head(order), fetched[Head(order)]),
                     Tail(order))

\* C2: the fold is order-independent: whatever order the repositories that
\* answered are processed in, the fold yields the logins, the totals and
\* the sets of repository names that this run's order yielded.  (Stated
\* of the state after each repository: user_data changes nowhere else.)
C2_FoldOrderIndependent ==
    (mode = "fleet" /\ pc = "fold_sleep") =>
        \A order \in Orders(DOMAIN fetched) :
            View(FoldInOrder(EmptyMap, order)) = View(user_data)

\* C2 witness: the report is answered after two repositories that share a
\* login with different contributions were folded.
C2_Witness ==
    /\ FleetAnswered
    /\ \E l \in DOMAIN user_data :
       \E a, b \in DOMAIN fetched :
          /\ a # b
          /\ Sightings(l, fetched[a]) = 1 /\ Sightings(l, fetched[b]) = 1
          /\ SumInList(l, fetched[a]) # SumInList(l, fetched[b])

\* C3: no aggregate's repositories list holds a repository name twice.
C3_NoDuplicateRepositories ==
    \A l \in DOMAIN user_data :
        \A i, j \in 1..Len(user_data[l].repositories) :
            user_data[l].repositories[i] = user_data[l].repositories[j] => i = j

\* C3 witness: a login was sighted twice in one repository's list (the
\* repeat sighting finds the name present) and is listed with it once.
C3_Witness ==
    /\ mode = "fleet" /\ pc # "panicked"
    /\ \E l \in DOMAIN user_data :
       \E r \in DOMAIN fetched :
          /\ Sightings(l, fetched[r]) >= 2
          /\ user_data[l].repositories = <<r>>

\* n < N x k and n <= N x k, the product exact (not wrapped), for a
\* length n
BelowProduct(n, u, k) ==
    \/ UsizeMulOverflows(u, k)
    \/ ~LenAtLeast(n, UsizeWrappingMul(u, k))
WithinProduct(n, u, k) ==
    \/ BelowProduct(n, u, k)
    \/ UsizeOf(n) = UsizeWrappingMul(u, k)

\* C4 (as stated): the candidate set never has more than N x 3 members.
C4_NeverMoreThanCap ==
    mode = "fleet" => WithinProduct(Cardinality(all_repos), limit, OversampleFactor)

\* C4 (amended): a further search page is requested only while the set has
\* fewer than N x 3 members, so only the last page processed can take the
\* set past N x 3: it never has more than max(N x 3 - 1, 0) members plus
\* the repositories of one page.
C4_CapStopsFurtherPages ==
    mode = "fleet" =>
        /\ (pc = "search" /\ page = 1) => all_repos = {}
        /\ (pc = "search" /\ page > 1) =>
               BelowProduct(Cardinality(all_repos), limit, OversampleFactor)
        /\ pc = "search_sleep" =>
               BelowProduct(Cardinality(all_repos), limit, OversampleFactor)
        /\ \/ Cardinality(all_repos) <= MaxPageItems
           \/ BelowProduct(Cardinality(all_repos) - MaxPageItems, limit,
                           OversampleFactor)

\* C4 witness: with N = 1 the search loop has ended with four candidates.
C4_Witness ==
    /\ mode = "fleet" /\ pc = "fold" /\ limit = UsizeOf(1)
    /\ ~WithinProduct(Cardinality(all_repos), limit, OversampleFactor)

\* limit = (2^64 + 2) / 3 in a build without overflow checks: limit * 3
\* wraps to 2, and the search stops after a first page of two repositories
CapWrapped ==
    /\ mode = "fleet" /\ pc = "fold"
    /\ limit = <<21846, 21845, 21845, 21845>>
    /\ Cardinality(all_repos) = 2
    /\ last_req.kind = "search" /\ last_req.page = 1
    /\ overflow_checks = "off"

\* the same limit in a build with overflow checks: line 417 panics on the
\* first page, before any contributors request
CapPanicked ==
    /\ mode = "fleet" /\ pc = "panicked"
    /\ limit = <<21846, 21845, 21845, 21845>>
    /\ last_req.kind = "search" /\ last_req.page = 1
    /\ iterated = <<>>
    /\ overflow_checks = "on"

\* limit = 2^63 in a build without overflow checks: limit * 2 wraps to 0,
\* no candidate is scanned and the answer is the empty list
ScanWrapped ==
    /\ mode = "fleet" /\ pc = "done" /\ http_status = 200
    /\ limit = <<0, 0, 0, 32768>>
    /\ all_repos # {}
    /\ last_req.kind = "search" /\ last_req.page = 2
    /\ iterated = <<>> /\ result = <<>>
    /\ overflow_checks = "off"

ResultLogins == {result[i].login : i \in 1..Len(result)}

\* C7: the report is the aggregates in non-increasing order of
\* total_contributions, cut to the limit: min(limit, logins) entries, each
\* an aggregate of the map, none twice, and no aggregate left out has a
\* strictly larger total than one that is included.
C7_ReportSortedAndTruncated ==
    FleetAnswered =>
        /\ Len(result) = LenMin(Cardinality(DOMAIN user_data), limit)
        /\ \A i \in 1..Len(result) :
              /\ result[i].login \in DOMAIN user_data
              /\ result[i] = user_data[result[i].login]
        /\ \A i, j \in 1..Len(result) :
              /\ i < j => ~U32Less(result[i].total_contributions,
                                   result[j].total_contributions)
              /\ result[i].login = result[j].login => i = j
        /\ \A l \in DOMAIN user_data \ ResultLogins :
              \A i \in 1..Len(result) :
                  ~U32Less(result[i].total_contributions,
                           user_data[l].total_contributions)

\* C7 witness: limit 1, two logins with different totals: one is reported,
\* the one with the smaller total is cut.
C7_Witness ==
    /\ FleetAnswered /\ limit = UsizeOf(1) /\ Len(result) = 1
    /\ \E l \in DOMAIN user_data \ ResultLogins :
          U32Less(user_data[l].total_contributions,
                  result[1].total_contributions)

\* position of a login in the discovery order
DiscoveryRank(l) == CHOOSE i \in 1..Len(discovery) : discovery[i] = l

\* C8 (as stated): aggregates with equal totals appear in discovery order,
\* and of tied aggregates the earlier discovered ones survive truncation.
C8_TiesInDiscoveryOrder ==
    FleetAnswered =>
        /\ \A i, j \in 1..Len(result) :
              (i < j /\ result[i].total_contributions
                            = result[j].total_contributions)
                  => DiscoveryRank(result[i].login)
                         < DiscoveryRank(result[j].login)
        /\ \A l \in DOMAIN user_data \ ResultLogins :
              \A i \in 1..Len(result) :
                  result[i].total_contributions
                          = user_data[l].total_contributions
                      => DiscoveryRank(result[i].login) < DiscoveryRank(l)

----------------------------------------------------------------------------
(* Properties of get_user_move_repos and its helpers.                      *)

DevAnswered == mode = "dev" /\ pc = "done" /\ http_status = 200

\* C5: when the repository-metadata call or the tree call answers a
\* failure status, repo_has_move_files returns false for that repository
\* and not an error: the request is not answered with an error, the
\* repository is recorded as having no Move files, and the loop is at it
\* (sleeping) or past it.
C5_FailureStatusIsFalse ==
    (mode = "dev" /\ last_req.kind \in {"repo", "tree"}
                  /\ last_req.outcome = "status") =>
        /\ http_status \in {0, 200}
        /\ detected # <<>>
        /\ detected[Len(detected)] = FALSE
        /\ pc = "detect_sleep" =>
               /\ Len(detected) = repo_idx
               /\ all_user_repos[repo_idx] \notin Range(repos_with_move_files)
                      \/ \E i \in 1..(repo_idx - 1) :
                             all_user_repos[i] = all_user_repos[repo_idx]
        /\ pc = "detect" => Len(detected) = repo_idx - 1

\* C5 witness: the tree call answered 404 for one repository and the loop
\* stands at the next repository.
C5_Witness ==
    /\ mode = "dev" /\ pc = "detect"
    /\ last_req.kind = "tree" /\ last_req.status = 404
    /\ repo_idx <= Len(all_user_repos)
    /\ http_status = 0

\* get_user_commit_count has just returned after the empty page that ends
\* a listing of non-empty pages
CountedToTheEnd ==
    /\ mode = "dev" /\ pc = "commit_sleep" /\ cc_history # <<>>
    /\ cc_history[Len(cc_history)] = 0

\* the count returned for the repository the commit loop stands at
ReturnedCount ==
    repositories_with_commits[Len(repositories_with_commits)].commit_count

\* the usize `u` is the number the u32 `count` stands for
SameNumber(count, u) == u = <<count.lo, count.hi, 0, 0>>

\* C6 (as stated): get_user_commit_count does not depend on the partition
\* into pages: when the listing was answered by non-empty pages followed by
\* an empty page, whatever their sizes, the count returned for the
\* repository is the number of commits by the author.
C6_CountIndependentOfPaging ==
    CountedToTheEnd =>
        /\ \A i \in 1..(Len(cc_history) - 1) : cc_history[i] > 0
        /\ SameNumber(ReturnedCount, UsizeWrappingMul(cc_unit, cc_commits))

\* what holds: a count that is returned is the number of commits modulo
\* 2^32, whatever the partition into pages, so it is the number of commits
\* whenever that number fits in u32
CountIsTotalModulo ==
    CountedToTheEnd =>
        /\ \A i \in 1..(Len(cc_history) - 1) : cc_history[i] > 0
        /\ ReturnedCount = UsizeAsU32(UsizeWrappingMul(cc_unit, cc_commits))
        /\ UsizeIsSmall(UsizeWrappingMul(cc_unit, cc_commits))
               => SameNumber(ReturnedCount,
                             UsizeWrappingMul(cc_unit, cc_commits))

\* two commits served as two non-empty pages and an empty page, counted 2
CountedInTwoPages ==
    /\ CountedToTheEnd
    /\ cc_unit = UsizeOf(1) /\ cc_commits = 2
    /\ cc_history = <<1, 1, 0>>
    /\ ReturnedCount = U32Of(2)

\* 2^32 commits served as two pages of 2^31 and an empty page, counted 0 by
\* a build without overflow checks
CountWrapped ==
    /\ CountedToTheEnd
    /\ cc_unit # UsizeOf(1) /\ cc_commits = 2
    /\ cc_history = <<1, 1, 0>>
    /\ ReturnedCount = U32Zero
    /\ overflow_checks = "off"

\* the same two pages in a build with overflow checks: line 342 panics on
\* the second page and the request is never answered
CountPanicked ==
    /\ mode = "dev" /\ pc = "panicked"
    /\ last_req.kind = "commits"
    /\ cc_history = <<1, 1>>
    /\ overflow_checks = "on"

\* entries of the account listing for which the detector returned true
Detected == {i \in 1..Len(detected) : detected[i]}
\* how often a full name is reported
Reported(name) ==
    Cardinality({i \in 1..Len(response.repositories) :
                    response.repositories[i].repo_name = name})

\* C9: in a report that is answered every entry of the account listing was
\* checked, the repositories reported are exactly the entries for which the
\* detector returned true, total_repositories is their number, and
\* has_move_files is true iff there is one.
C9_ReportIsDetectedRepos ==
    DevAnswered =>
        /\ response.present
        /\ Len(detected) = Len(all_user_repos)
        /\ \A name \in UserRepoNames :
              Reported(name)
                  = Cardinality({i \in Detected : all_user_repos[i] = name})
        /\ Len(response.repositories) = Cardinality(Detected)
        /\ response.total_repositories = Cardinality(Detected)
        /\ response.has_move_files <=> (Detected # {})

\* C9 witness: the account owns three repositories, the detector returned
\* true for exactly one: has_move_files = true, total_repositories = 1.
C9_Witness ==
    /\ DevAnswered
    /\ Len(all_user_repos) = 3
    /\ Cardinality(Range(all_user_repos)) = 3
    /\ Cardinality(Detected) = 1
    /\ response.has_move_files
    /\ response.total_repositories = 1

\* the sleep the code makes between two pages of a pagination: 6 s between
\* search pages (line 421), 500 ms between account repository pages (line
\* 204), none between commit pages (lines 342-346)
PageDelay(kind) ==
    CASE kind = "search" -> SearchDelayMs
      [] kind = "repos" -> RepoListDelayMs
      [] OTHER -> 0

Paginated == {"search", "repos", "commits"}

\* C10 (as stated): in every paginated sequence the request for page n+1
\* goes out only after page n was requested and processed and an
\* inter-page delay has elapsed since page n's response.
C10_NextPageAfterDelay ==
    (last_req.kind \in Paginated /\ last_req.page > 1) =>
        /\ last_req.prev = last_req.page - 1
        /\ last_req.gap > 0
        /\ last_req.gap >= PageDelay(last_req.kind)

\* what holds of the two paginations that do sleep: search pages and
\* account repository pages
SearchAndListingPagesAfterDelay ==
    (last_req.kind \in {"search", "repos"} /\ last_req.page > 1) =>
        /\ last_req.prev = last_req.page - 1
        /\ last_req.gap > 0
        /\ last_req.gap >= PageDelay(last_req.kind)

----------------------------------------------------------------------------
(* Properties of the paginations and of the error paths.                   *)

\* the handler is inside the pagination of a resource
InSearchPages == mode = "fleet" /\ pc \in {"search", "search_sleep"}
InListingPages == mode = "dev" /\ pc \in {"list", "list_sleep"}
InCommitPages == mode = "dev" /\ pc = "commit_page"

\* the page requests of a pagination are bounded: a search page is one of
\* 1..10; page n+1 of the account listing or of a commit listing is asked
\* for only after n non-empty pages were received
PageRequestsBounded ==
    /\ InSearchPages => page \in 1..MaxSearchPages
    /\ InListingPages => page \in 1..(Len(all_user_repos) + 1)
    /\ InCommitPages => page \in 1..(Len(cc_history) + 1)
    /\ last_req.kind = "search" => last_req.page \in 1..MaxSearchPages

\* C11: every pagination terminates after finitely many page requests:
\* the number of pages requested is bounded (by the cap of 10 pages for the
\* search, by the non-empty pages received for the two listings, which end
\* at the first empty page), and a pagination that was started is left.
C11_PaginationTerminates ==
    /\ [][PageRequestsBounded']_vars
    /\ InSearchPages ~> ~InSearchPages
    /\ InListingPages ~> ~InListingPages
    /\ InCommitPages ~> ~InCommitPages

\* C11 witness: the search was ended by the cap of 10 pages: page 10 was
\* not empty, the set is below N x 3, and the loop is over after its sleep.
C11_Witness ==
    /\ mode = "fleet" /\ pc = "fold"
    /\ last_req.kind = "search" /\ last_req.page = MaxSearchPages
    /\ now_gap = SearchDelayMs
    /\ ~CapReached(all_repos, limit)

\* the last request was a discovery call (a search page, an account
\* repository page) that answered a quota status
QuotaAnswered ==
    /\ last_req.kind \in {"search", "repos"}
    /\ last_req.outcome = "status"
    /\ last_req.status \in {403, 429}

\* C12 (as stated): when a discovery call answers 403 or 429 the request
\* ends with 429 TOO_MANY_REQUESTS (not 502, not a report), and nothing is
\* requested after it.
C12_QuotaIsTooManyRequests ==
    QuotaAnswered => (pc = "done" /\ http_status = 429)

\* what the code does: the request ends at once (so the call is not issued
\* again), with 429 only for a search page that answered 403, and with 502
\* for a search page that answered 429 and for any account repository page
QuotaEndsRequest ==
    QuotaAnswered =>
        /\ pc = "done"
        /\ http_status = IF last_req.kind = "search" /\ last_req.status = 403
                         THEN 429 ELSE 502

\* the last request was a discovery call that failed: send() failed, a
\* status other than 2xx was answered, or the body did not parse
DiscoveryFailed ==
    /\ last_req.kind \in {"search", "repos"}
    /\ \/ last_req.outcome \in {"transport", "status", "malformed"}
       \/ ~IsSuccess(last_req.status)

\* C13 (as stated): when a discovery call fails the inbound request ends
\* with an error status and no report: nothing is answered from the
\* candidates of the pages received before the failure.
C13_DiscoveryFailureAborts ==
    DiscoveryFailed =>
        /\ pc = "done"
        /\ http_status \in {429, 500, 502}
        /\ result = <<>>
        /\ ~response.present

\* the last request was a discovery call the code takes for failed: send()
\* failed, the body did not parse, the search answered a status other than
\* 2xx, or the account listing answered a client or server error
DiscoveryRejected ==
    /\ last_req.kind \in {"search", "repos"}
    /\ last_req.outcome \in {"transport", "status", "malformed"}

\* what holds: a discovery call the code takes for failed ends the inbound
\* request with an error status and no report
RejectedDiscoveryAborts ==
    DiscoveryRejected =>
        /\ pc = "done"
        /\ http_status \in {429, 500, 502}
        /\ result = <<>>
        /\ ~response.present

\* and the only discovery call with a status other than 2xx that is not
\* taken for failed is an account listing page answering 3xx
OnlyListingPassesNonSuccess ==
    (DiscoveryFailed /\ ~DiscoveryRejected) =>
        /\ last_req.kind = "repos" /\ last_req.outcome = "ok"
        /\ ~IsSuccess(last_req.status) /\ ~IsErrorStatus(last_req.status)

\* search pages 1 and 2 brought candidates, page 3 failed to parse, and the
\* request was answered with an error
SearchFailedOnThirdPage ==
    /\ mode = "fleet" /\ pc = "done"
    /\ last_req.kind = "search" /\ last_req.page = 3 /\ last_req.prev = 2
    /\ last_req.outcome = "malformed"
    /\ http_status = 500

\* an account listing page answered 304 with a body of one repository, and
\* the handler went on to the next page
ListingWentOnAfter304 ==
    /\ mode = "dev" /\ pc = "list_sleep"
    /\ last_req.kind = "repos" /\ last_req.status = 304
    /\ Len(all_user_repos) = 1
    /\ http_status = 0

\* the account listing answered 304 with an empty array, and a report was
\* answered with status 200
ReportAfter304 ==
    /\ DevAnswered
    /\ last_req.kind = "repos" /\ last_req.status = 304
    /\ response.present

\* the last request was an aggregation call (a contributor list, a commit
\* page) that failed in transport
AggregationTransportFailed ==
    /\ last_req.kind \in {"contributors", "commits"}
    /\ last_req.outcome = "transport"

\* C14 (as stated): a transport failure of an aggregation call is a skip
\* of that repository: the request is not ended by it (it goes on, or has
\* answered a report), and what was accumulated for the repositories
\* before it is kept.
C14_TransportFailureIsSkip ==
    AggregationTransportFailed =>
        /\ http_status \in {0, 200}
        /\ (mode = "dev" /\ pc = "done") => response.present

\* what holds in fleet mode: the contributors call that fails in transport
\* leaves the request running with the fold of the lists that did answer
FleetTransportFailureIsSkip ==
    (mode = "fleet" /\ AggregationTransportFailed) =>
        /\ http_status \in {0, 200}
        /\ pc \in {"fold_sleep", "fold", "done"}
        /\ last_req.outcome = "transport" =>
               \A order \in Orders(DOMAIN fetched) :
                   View(FoldInOrder(EmptyMap, order)) = View(user_data)

\* C15 (as stated): whatever the repository-metadata call or the tree call
\* of the detector answers (a failure status, a transport failure, a body
\* that does not parse), the request is not aborted: it goes on with the
\* next repository, that repository recorded as having no Move files.
C15_DetectorNeverAborts ==
    (mode = "dev" /\ last_req.kind \in {"repo", "tree"}
                  /\ last_req.outcome \in {"status", "transport", "malformed"}) =>
        /\ http_status \in {0, 200}
        /\ detected # <<>>
        /\ detected[Len(detected)] = FALSE

\* what holds: only a transport failure or an unparsable body of the two
\* detector calls ends the request, with 502 and no report
DetectorErrAborts ==
    (mode = "dev" /\ last_req.kind \in {"repo", "tree"}
                  /\ last_req.outcome \in {"transport", "malformed"}) =>
        /\ pc = "done"
        /\ http_status = 502
        /\ ~response.present

\* the full names for which repo_has_move_files has returned true in this
\* run (get_user_move_repos is its only caller)
DetectedTrue == {all_user_repos[i] : i \in Detected}

\* C16 (as stated): in fleet mode the contributor list of a repository is
\* requested, and folded, only after the Move-file detector has returned
\* true for that repository in the same run.
C16_FoldOnlyDetectedRepos ==
    mode = "fleet" =>
        /\ Range(iterated) \subseteq DetectedTrue
        /\ DOMAIN fetched \subseteq DetectedTrue

\* what holds: in fleet mode the detector is never called, and the
\* repositories whose contributor lists are requested are the first
\* limit x 2 that the set of search results yields
FleetScansSearchResults ==
    mode = "fleet" =>
        /\ DetectedTrue = {}
        /\ last_req.kind \notin {"repo", "tree"}
        /\ Range(iterated) \subseteq all_repos
        /\ WithinProduct(Len(iterated), limit, ScanFactor)

\* get_user_commit_count has just returned after a commit-list request
\* that answered a failure status
CommitCountBrokeOnStatus ==
    /\ mode = "dev" /\ pc = "commit_sleep"
    /\ last_req.kind = "commits" /\ last_req.outcome = "status"

\* the count get_user_commit_count returned last
LastCommitCount ==
    repositories_with_commits[Len(repositories_with_commits)].commit_count

\* C17 (as stated): get_user_commit_count returns 0 whenever a commit-list
\* request answers a failure status, on whichever page.
C17_FailureStatusCountsZero ==
    CommitCountBrokeOnStatus => LastCommitCount = U32Zero

\* what holds: the count returned is the number of commits of the pages
\* received before the failure (modulo 2^32), which is 0 when page 1 failed
FailureStatusCountsPagesSoFar ==
    CommitCountBrokeOnStatus =>
        /\ LastCommitCount =
               UsizeAsU32(UsizeWrappingMul(cc_unit, cc_commits - cc_upstream))
        /\ last_req.page = 1 => LastCommitCount = U32Zero
        /\ (last_req.page > 1 /\ cc_unit = UsizeOf(1))
               => LastCommitCount # U32Zero

\* a path ends in the five characters ".move"
IsMovePath(path) ==
    /\ Len(path) >= 5
    /\ path[Len(path) - 4] = "." /\ path[Len(path) - 3] = "m"
    /\ path[Len(path) - 2] = "o" /\ path[Len(path) - 1] = "v"
    /\ path[Len(path)] = "e"

\* repo_has_move_files has just returned after both of its calls succeeded
\* with bodies that parse
DetectorSawTree ==
    /\ mode = "dev" /\ pc = "detect_sleep"
    /\ last_req.kind = "tree" /\ last_req.outcome = "ok"

\* C18: when the repository-metadata call and the tree call both succeed
\* with parsable bodies, repo_has_move_files returns true iff some entry of
\* the tree array has a string path ending in ".move"; a body without a
\* tree array, and an entry without a string path, match nothing.
C18_TrueIffSomePathEndsInMove ==
    DetectorSawTree =>
        /\ tree_data.present
        /\ detected[Len(detected)] <=>
               /\ tree_data.has_tree
               /\ \E i \in DOMAIN tree_data.tree :
                     /\ tree_data.tree[i].is_str
                     /\ IsMovePath(tree_data.tree[i].path)
        /\ ~tree_data.has_tree => ~detected[Len(detected)]
        /\ (\A i \in DOMAIN tree_data.tree : ~tree_data.tree[i].is_str)
               => ~detected[Len(detected)]

\* C18 witness: the tree holds an entry without a string path and the
\* path ".moves", which only contains ".move": the detector returned false.
C18_Witness ==
    /\ DetectorSawTree
    /\ tree_data.has_tree /\ Len(tree_data.tree) = 2
    /\ ~tree_data.tree[1].is_str
    /\ tree_data.tree[2].path = <<".", "m", "o", "v", "e", "s">>
    /\ ~detected[Len(detected)]

\* the detector returned true for a tree whose second entry is "a.move"
DetectorFoundMove ==
    /\ DetectorSawTree
    /\ tree_data.has_tree /\ Len(tree_data.tree) = 2
    /\ tree_data.tree[1].path = <<"m", "o", "v", "e">>
    /\ tree_data.tree[2].path = <<"a", ".", "m", "o", "v", "e">>
    /\ detected[Len(detected)]

\* no element occurs twice in a sequence
NoRepeat(s) == \A i, j \in 1..Len(s) : s[i] = s[j] => i = j

\* C19 (as stated): no full name occurs twice among the candidates of a
\* run (the repositories taken from the search result set; the account
\* repository list accumulated over the pages), whatever pages the upstream
\* returns, so that no repository is reported twice.
C19_CandidatesUnique ==
    /\ NoRepeat(iterated)
    /\ NoRepeat(all_user_repos)
    /\ \A name \in UserRepoNames : Reported(name) <= 1

\* what holds in fleet mode: the candidates are a set, and no repository's
\* contributors are requested twice
FleetCandidatesUnique ==
    mode = "fleet" =>
        /\ NoRepeat(iterated)
        /\ Range(iterated) \subseteq all_repos
        /\ DOMAIN fetched \subseteq Range(iterated)

\* a report that names one repository twice and counts its commits twice
ReportedTwice ==
    /\ DevAnswered
    /\ Len(all_user_repos) = 2 /\ all_user_repos[1] = all_user_repos[2]
    /\ response.total_repositories = 2
    /\ response.repositories[1].repo_name = response.repositories[2].repo_name
    /\ response.total_commits = U32Of(2)

\* the sum of commit_count over the entries of a list, exact
RECURSIVE SumCommitCounts(_)
SumCommitCounts(repos) ==
    IF repos = <<>> THEN U32Zero
    ELSE ExactAdd(Head(repos).commit_count, SumCommitCounts(Tail(repos)))

\* the same sum modulo 2^32
RECURSIVE WrappedCommitCounts(_)
WrappedCommitCounts(repos) ==
    IF repos = <<>> THEN U32Zero
    ELSE U32WrappingAdd(Head(repos).commit_count,
                        WrappedCommitCounts(Tail(repos)))

\* C20 (as stated): in every single-developer report that is returned,
\* total_commits is the sum of commit_count over the entries of
\* repositories, total_repositories is the number of those entries, and a
\* report with has_move_files = false has total_commits = 0.
C20_TotalsMatchEntries ==
    DevAnswered =>
        /\ response.total_commits = SumCommitCounts(response.repositories)
        /\ response.total_repositories = Len(response.repositories)
        /\ ~response.has_move_files => response.total_commits = U32Zero

\* what holds: total_commits is that sum modulo 2^32, so it is the sum
\* whenever the sum fits in u32; the other two statements hold as they are
TotalsMatchEntriesModulo ==
    DevAnswered =>
        /\ response.total_commits = WrappedCommitCounts(response.repositories)
        /\ SumCommitCounts(response.repositories).hi < Limb
              => response.total_commits
                     = SumCommitCounts(response.repositories)
        /\ response.total_repositories = Len(response.repositories)
        /\ ~response.has_move_files => response.total_commits = U32Zero

\* a report of two repositories with counts 1 and 2, pushed in that order
\* and sorted to 2, 1: total_commits = 3
ReportOfTwoRepositories ==
    /\ DevAnswered
    /\ Len(repositories_with_commits) = 2
    /\ repositories_with_commits[1].commit_count = U32Of(1)
    /\ repositories_with_commits[2].commit_count = U32Of(2)
    /\ response.repositories[1].commit_count = U32Of(2)
    /\ response.total_commits = U32Of(3)
    /\ response.total_repositories = 2

\* a report of two repositories of 2^31 commits each by a build without
\* overflow checks: total_commits = 0
TotalWrapped ==
    /\ DevAnswered
    /\ Len(response.repositories) = 2
    /\ \A i \in 1..2 : response.repositories[i].commit_count = U32(Limb \div 2, 0)
    /\ response.total_commits = U32Zero
    /\ overflow_checks = "off"

\* the same two repositories in a build with overflow checks: line 230
\* panics after the second entry was pushed, and nothing is answered
TotalPanicked ==
    /\ mode = "dev" /\ pc = "panicked"
    /\ Len(repositories_with_commits) = 2
    /\ \A i \in 1..2 :
          repositories_with_commits[i].commit_count = U32(Limb \div 2, 0)
    /\ total_commits = U32(Limb \div 2, 0)
    /\ ~response.present
    /\ overflow_checks = "on"

\* a report without Move files: no entries, no commits
EmptyReport ==
    /\ DevAnswered
    /\ all_user_repos # <<>>
    /\ ~response.has_move_files
    /\ response.total_commits = U32Zero

====
